---- MODULE Spec2Model ----
(***************************************************************************)
(* Tic-tac-toe with a negamax opponent (src/Application.cpp).              *)
(*                                                                         *)
(* The state is the file-static state of namespace ClassGame: the board,   *)
(* whose turn it is, the recorded outcome, the "Play vs AI" checkbox and   *)
(* the random engine.  Each UI event (a click on an enabled cell, the      *)
(* Reset button, the checkbox) and each public entry point is one action;  *)
(* a click includes the AI's immediate reply, as in the handler.           *)
(*                                                                         *)
(* twin is the state of a second run of the program, fed the same events   *)
(* as the first; sprite and loaded are a Sprite object                     *)
(* (src/classes/Sprite.cpp) and its last call of LoadTextureFromFile.      *)
(***************************************************************************)
EXTENDS Integers, Sequences, FiniteSets

VARIABLES board, currentPlayer, gameOver, winner, aiEnabled, rng,
          twin, sprite, loaded

vars == <<board, currentPlayer, gameOver, winner, aiEnabled, rng,
          twin, sprite, loaded>>

----------------------------------------------------------------------------
(* Bounds and program constants *)

\* GameStartUp seeds rng with the wall clock; the model draws it from 0..MaxSeed.
MaxSeed == 1

\* The traced search gives up below this level of nested calls: a board has
\* 9 cells, so a chain that fills a cell per level never comes this far.
MaxDepth == 9

\* The state of a default-constructed std::mt19937 (its default seed).
DefaultSeed == 5489

\* std::numeric_limits<int>::min()
IntMin == -2147483647 - 1

Cells == 0 .. 8

\* all 8 winning triplets
WINS == << <<0,1,2>>, <<3,4,5>>, <<6,7,8>>,
           <<0,3,6>>, <<1,4,7>>, <<2,5,8>>,
           <<0,4,8>>, <<2,4,6>> >>

\* Preferred move order (center, corners, edges)
ORDER == <<4, 0, 2, 6, 8, 1, 3, 5, 7>>

EmptyBoard == [i \in Cells |-> 0]

----------------------------------------------------------------------------
(* Helpers *)

RECURSIVE CheckWinnerScan(_, _)
\* the for loop of CheckWinnerRaw, from triplet k on
CheckWinnerScan(b, k) ==
    IF k > Len(WINS) THEN 0
    ELSE LET a == b[WINS[k][1]]
             bb == b[WINS[k][2]]
             c == b[WINS[k][3]]
         IN IF a # 0 /\ a = bb /\ bb = c THEN a
            ELSE CheckWinnerScan(b, k + 1)

RECURSIVE CheckWinnerScanNoZeroCheck(_, _)
\* Mutant of the scan: `if (a == b && b == c) return a;`, the a != 0 test lost.
CheckWinnerScanNoZeroCheck(b, k) ==
    IF k > Len(WINS) THEN 0
    ELSE LET a == b[WINS[k][1]]
             bb == b[WINS[k][2]]
             c == b[WINS[k][3]]
         IN IF a = bb /\ bb = c THEN a
            ELSE CheckWinnerScanNoZeroCheck(b, k + 1)

CheckWinnerRawNoZeroCheck(b) == CheckWinnerScanNoZeroCheck(b, 1)

CheckWinnerRaw(b) == CheckWinnerScan(b, 1)

\* Mutant: the signed mapping mixed up (X -> -1, O -> +1).
CheckWinnerSignedSwapped(b) ==
    LET w == CheckWinnerRaw(b)
    IN IF w = 1 THEN -1 ELSE IF w = 2 THEN 1 ELSE 0

\* +1 = X has 3-in-a-row, -1 = O has 3-in-a-row, 0 = none
CheckWinnerSigned(b) ==
    LET w == CheckWinnerRaw(b)
    IN IF w = 1 THEN 1 ELSE IF w = 2 THEN -1 ELSE 0

\* Mutant: the loop's test inverted (true as soon as one cell is used).
BoardFullInverted(b) == \E i \in Cells : b[i] # 0

BoardFull(b) == \A i \in Cells : b[i] # 0

----------------------------------------------------------------------------
(* Negamax AI.  The code searches on the global board with place/undo; the *)
(* operators thread the board through the calls and return it with the     *)
(* value, so that the board a call leaves behind is part of its result.    *)

RECURSIVE Negamax(_, _), NegamaxLoop(_, _, _, _)

\* Mutant of the loop: the early exit taken on a draw already (best >= 0).
NegamaxLoopExitOnDraw(b, side, k, best) ==
    IF k > Len(ORDER) THEN [val |-> best, board |-> b]
    ELSE LET idx == ORDER[k]
         IN IF b[idx] # 0 THEN NegamaxLoop(b, side, k + 1, best)
            ELSE LET placed == [b EXCEPT ![idx] = IF side = 1 THEN 1 ELSE 2]
                     r == Negamax(placed, -side)
                     val == -r.val
                     undone == [r.board EXCEPT ![idx] = 0]
                     nbest == IF val > best THEN val ELSE best
                 IN IF nbest >= 0 THEN [val |-> nbest, board |-> undone]
                    ELSE NegamaxLoop(undone, side, k + 1, nbest)

\* Mutant of Negamax: a terminal board scored for X whatever the side.
NegamaxAbsolute(b, side) ==
    LET signedWinner == CheckWinnerSigned(b)
    IN IF signedWinner # 0
       THEN [val |-> signedWinner, board |-> b]
       ELSE IF BoardFull(b) THEN [val |-> 0, board |-> b]
       ELSE NegamaxLoop(b, side, 1, IntMin)

\* The for loop of Negamax from position k of ORDER on, with the running best.
NegamaxLoop(b, side, k, best) ==
    IF k > Len(ORDER) THEN [val |-> best, board |-> b]
    ELSE LET idx == ORDER[k]
         IN IF b[idx] # 0 THEN NegamaxLoop(b, side, k + 1, best)
            ELSE LET placed == [b EXCEPT ![idx] = IF side = 1 THEN 1 ELSE 2]
                     r == Negamax(placed, -side)
                     val == -r.val
                     undone == [r.board EXCEPT ![idx] = 0]
                     nbest == IF val > best THEN val ELSE best
                 IN IF nbest = 1 THEN [val |-> nbest, board |-> undone]
                    ELSE NegamaxLoop(undone, side, k + 1, nbest)

\* side: +1 for X-to-move, -1 for O-to-move
Negamax(b, side) ==
    LET signedWinner == CheckWinnerSigned(b)
    IN IF signedWinner # 0
       THEN [val |-> IF signedWinner = side THEN 1 ELSE -1, board |-> b]
       ELSE IF BoardFull(b) THEN [val |-> 0, board |-> b]
       ELSE NegamaxLoop(b, side, 1, IntMin)

----------------------------------------------------------------------------
(* The same search with the run observed: d is the level of the call (0 for *)
(* the outermost), and the result tells, with the value, the deepest level *)
(* the call reached and whether a negation was applied to IntMin, which is *)
(* signed overflow: undefined, so it is flagged, and the value is kept as  *)
(* the wrapped IntMin only to go on.  A chain of calls that passes         *)
(* MaxDepth is abandoned at once (depth > MaxDepth in the result).  The    *)
(* board is not part of the result here: each iteration starts from the    *)
(* board of the call, as place and undo leave it.                          *)

RECURSIVE NegamaxTraced(_, _, _), NegamaxTracedLoop(_, _, _, _, _, _, _)

\* Mutant of the traced loop: the move undone before the recursive call
\* instead of after it, so the call searches the board unchanged.
NegamaxTracedLoopUndoFirst(b, side, k, best, d, deep, neg) ==
    IF k > Len(ORDER) THEN [val |-> best, depth |-> deep, negatedMin |-> neg]
    ELSE IF b[ORDER[k]] # 0 THEN NegamaxTracedLoop(b, side, k + 1, best, d, deep, neg)
    ELSE LET r == NegamaxTraced(b, -side, d + 1)
             val == IF r.val = IntMin THEN IntMin ELSE -r.val
             nbest == IF val > best THEN val ELSE best
             ndeep == IF r.depth > deep THEN r.depth ELSE deep
             nneg == neg \/ r.negatedMin \/ r.val = IntMin
         IN IF ndeep > MaxDepth \/ nbest = 1
            THEN [val |-> nbest, depth |-> ndeep, negatedMin |-> nneg]
            ELSE NegamaxTracedLoop(b, side, k + 1, nbest, d, ndeep, nneg)

\* Mutant of the traced search: `if (BoardFull()) return 0;` forgotten.
NegamaxTracedNoFullCheck(b, side, d) ==
    IF d > MaxDepth THEN [val |-> 0, depth |-> d, negatedMin |-> FALSE]
    ELSE LET signedWinner == CheckWinnerSigned(b)
         IN IF signedWinner # 0
            THEN [val |-> IF signedWinner = side THEN 1 ELSE -1,
                  depth |-> d, negatedMin |-> FALSE]
            ELSE NegamaxTracedLoop(b, side, 1, IntMin, d, d, FALSE)

\* The for loop of Negamax at level d from position k of ORDER on; deep and
\* neg are what the calls made so far have shown.
NegamaxTracedLoop(b, side, k, best, d, deep, neg) ==
    IF k > Len(ORDER) THEN [val |-> best, depth |-> deep, negatedMin |-> neg]
    ELSE IF b[ORDER[k]] # 0 THEN NegamaxTracedLoop(b, side, k + 1, best, d, deep, neg)
    ELSE LET r == NegamaxTraced([b EXCEPT ![ORDER[k]] = IF side = 1 THEN 1 ELSE 2],
                                -side, d + 1)
             val == IF r.val = IntMin THEN IntMin ELSE -r.val
             nbest == IF val > best THEN val ELSE best
             ndeep == IF r.depth > deep THEN r.depth ELSE deep
             nneg == neg \/ r.negatedMin \/ r.val = IntMin
         IN IF ndeep > MaxDepth \/ nbest = 1
            THEN [val |-> nbest, depth |-> ndeep, negatedMin |-> nneg]
            ELSE NegamaxTracedLoop(b, side, k + 1, nbest, d, ndeep, nneg)

\* Negamax called at level d.
NegamaxTraced(b, side, d) ==
    IF d > MaxDepth THEN [val |-> 0, depth |-> d, negatedMin |-> FALSE]
    ELSE LET signedWinner == CheckWinnerSigned(b)
         IN IF signedWinner # 0
            THEN [val |-> IF signedWinner = side THEN 1 ELSE -1,
                  depth |-> d, negatedMin |-> FALSE]
            ELSE IF BoardFull(b) THEN [val |-> 0, depth |-> d, negatedMin |-> FALSE]
            ELSE NegamaxTracedLoop(b, side, 1, IntMin, d, d, FALSE)

RECURSIVE AIMoveLoop(_, _, _, _)

\* Mutant of the search loop: `int val = Negamax(+1);`, the negation lost.
AIMoveLoopNoNegate(b, k, bestVal, bestMove) ==
    IF k > Len(ORDER) THEN [board |-> b, bestVal |-> bestVal, bestMove |-> bestMove]
    ELSE LET idx == ORDER[k]
         IN IF b[idx] # 0 THEN AIMoveLoop(b, k + 1, bestVal, bestMove)
            ELSE LET placed == [b EXCEPT ![idx] = 2]
                     r == Negamax(placed, 1)
                     val == r.val
                     undone == [r.board EXCEPT ![idx] = 0]
                 IN IF val > bestVal
                    THEN IF val = 1
                         THEN [board |-> undone, bestVal |-> val, bestMove |-> idx]
                         ELSE AIMoveLoop(undone, k + 1, val, idx)
                    ELSE AIMoveLoop(undone, k + 1, bestVal, bestMove)

\* Mutant of the search loop: `if (val >= bestVal)`, the last of equal moves kept.
AIMoveLoopLastBest(b, k, bestVal, bestMove) ==
    IF k > Len(ORDER) THEN [board |-> b, bestVal |-> bestVal, bestMove |-> bestMove]
    ELSE LET idx == ORDER[k]
         IN IF b[idx] # 0 THEN AIMoveLoop(b, k + 1, bestVal, bestMove)
            ELSE LET placed == [b EXCEPT ![idx] = 2]
                     r == Negamax(placed, 1)
                     val == -r.val
                     undone == [r.board EXCEPT ![idx] = 0]
                 IN IF val >= bestVal
                    THEN IF val = 1
                         THEN [board |-> undone, bestVal |-> val, bestMove |-> idx]
                         ELSE AIMoveLoop(undone, k + 1, val, idx)
                    ELSE AIMoveLoop(undone, k + 1, bestVal, bestMove)

\* Mutant of the search loop: the undo `board[idx] = 0;` forgotten.
AIMoveLoopNoUndo(b, k, bestVal, bestMove) ==
    IF k > Len(ORDER) THEN [board |-> b, bestVal |-> bestVal, bestMove |-> bestMove]
    ELSE LET idx == ORDER[k]
         IN IF b[idx] # 0 THEN AIMoveLoop(b, k + 1, bestVal, bestMove)
            ELSE LET placed == [b EXCEPT ![idx] = 2]
                     r == Negamax(placed, 1)
                     val == -r.val
                     undone == r.board
                 IN IF val > bestVal
                    THEN IF val = 1
                         THEN [board |-> undone, bestVal |-> val, bestMove |-> idx]
                         ELSE AIMoveLoop(undone, k + 1, val, idx)
                    ELSE AIMoveLoop(undone, k + 1, bestVal, bestMove)

\* Mutant of the search loop: `bestMove = idx;` forgotten.
AIMoveLoopForgetsMove(b, k, bestVal, bestMove) ==
    IF k > Len(ORDER) THEN [board |-> b, bestVal |-> bestVal, bestMove |-> bestMove]
    ELSE LET idx == ORDER[k]
         IN IF b[idx] # 0 THEN AIMoveLoop(b, k + 1, bestVal, bestMove)
            ELSE LET placed == [b EXCEPT ![idx] = 2]
                     r == Negamax(placed, 1)
                     val == -r.val
                     undone == [r.board EXCEPT ![idx] = 0]
                 IN IF val > bestVal
                    THEN IF val = 1
                         THEN [board |-> undone, bestVal |-> val, bestMove |-> bestMove]
                         ELSE AIMoveLoop(undone, k + 1, val, bestMove)
                    ELSE AIMoveLoop(undone, k + 1, bestVal, bestMove)

\* The search loop of AIMove_Negamax from position k of ORDER on.
AIMoveLoop(b, k, bestVal, bestMove) ==
    IF k > Len(ORDER) THEN [board |-> b, bestVal |-> bestVal, bestMove |-> bestMove]
    ELSE LET idx == ORDER[k]
         IN IF b[idx] # 0 THEN AIMoveLoop(b, k + 1, bestVal, bestMove)
            ELSE LET placed == [b EXCEPT ![idx] = 2]
                     r == Negamax(placed, 1)
                     val == -r.val
                     undone == [r.board EXCEPT ![idx] = 0]
                 IN IF val > bestVal
                    THEN IF val = 1
                         THEN [board |-> undone, bestVal |-> val, bestMove |-> idx]
                         ELSE AIMoveLoop(undone, k + 1, val, idx)
                    ELSE AIMoveLoop(undone, k + 1, bestVal, bestMove)

\* Fallback of AIMove_Negamax: the first empty cell by index, -1 if none.
FirstEmpty(b) ==
    IF \E i \in Cells : b[i] = 0
    THEN CHOOSE i \in Cells : b[i] = 0 /\ \A j \in Cells : j < i => b[j] # 0
    ELSE -1

\* AIMove_Negamax on a state s = [board, currentPlayer, gameOver, winner].
AIMove_Negamax(s) ==
    IF s.gameOver THEN s
    ELSE LET found == AIMoveLoop(s.board, 1, IntMin, -1)
             bestMove == IF found.bestMove = -1 THEN FirstEmpty(found.board)
                         ELSE found.bestMove
             nb == IF bestMove # -1 THEN [found.board EXCEPT ![bestMove] = 2]
                   ELSE found.board
             w == CheckWinnerRaw(nb)
             over == (w # 0) \/ BoardFull(nb)
         IN [board |-> nb,
             currentPlayer |-> IF ~over THEN 1 ELSE s.currentPlayer,
             gameOver |-> over,
             winner |-> w]

----------------------------------------------------------------------------
(* The UI and the public entry points *)

\* The part of the state the move logic reads and writes.
State == [board |-> board, currentPlayer |-> currentPlayer,
          gameOver |-> gameOver, winner |-> winner]

\* Mutant of ResetGame: `winner = 0;` forgotten.
ResetGameKeepsWinner ==
    /\ board' = EmptyBoard
    /\ currentPlayer' = 1
    /\ gameOver' = FALSE
    /\ winner' = winner

\* ResetGame: the state it leaves.
ResetGame ==
    /\ board' = EmptyBoard
    /\ currentPlayer' = 1
    /\ gameOver' = FALSE
    /\ winner' = 0

\* Mutant of the disabling rule: gameOver left out of it.
DisabledIgnoringGameOver(idx) ==
    IF aiEnabled THEN board[idx] # 0 \/ currentPlayer # 1
    ELSE board[idx] # 0

\* Mutant of the disabling rule: `board[idx] != 0` left out of it.
DisabledIgnoringOccupied(idx) ==
    IF aiEnabled THEN gameOver \/ currentPlayer # 1
    ELSE gameOver

\* DrawBoardUI: whether the button of cell idx is drawn disabled.
Disabled(idx) ==
    IF aiEnabled THEN gameOver \/ board[idx] # 0 \/ currentPlayer # 1
    ELSE gameOver \/ board[idx] # 0

\* Mutant of the toggle: `currentPlayer == 1 ? 1 : 2`.
NextTurnStuck(cp) == IF cp = 1 THEN 1 ELSE 2

\* DrawBoardUI, local 2P: toggle turn.
NextTurn(cp) == IF cp = 1 THEN 2 ELSE 1

\* DrawBoardUI: the body of `if (ImGui::Button(...))` for cell idx,
\* the AI's immediate reply included.
ButtonClicked(s, ai, idx) ==
    LET nb == [s.board EXCEPT ![idx] = s.currentPlayer]
        w == CheckWinnerRaw(nb)
        over == (w # 0) \/ BoardFull(nb)
        placed == [board |-> nb, currentPlayer |-> s.currentPlayer,
                   gameOver |-> over, winner |-> w]
    IN IF over THEN placed
       ELSE IF ai THEN AIMove_Negamax([placed EXCEPT !.currentPlayer = 2])
       ELSE [placed EXCEPT !.currentPlayer = NextTurn(s.currentPlayer)]

\* A click on the enabled button of cell idx.
ClickCell(idx) ==
    /\ ~Disabled(idx)
    /\ \E r \in {ButtonClicked(State, aiEnabled, idx)} :
          /\ board' = r.board
          /\ currentPlayer' = r.currentPlayer
          /\ gameOver' = r.gameOver
          /\ winner' = r.winner
    /\ UNCHANGED <<aiEnabled, rng, twin, sprite, loaded>>

Click == \E idx \in Cells : ClickCell(idx)

\* RenderGame: the Reset button.
ResetPressed == ResetGame /\ UNCHANGED <<aiEnabled, rng, twin, sprite, loaded>>

\* RenderGame: the "Play vs AI (O)" checkbox.
ToggleAI ==
    /\ aiEnabled' = ~aiEnabled
    /\ UNCHANGED <<board, currentPlayer, gameOver, winner, rng, twin, sprite, loaded>>

\* GameStartUp: seeds rng from the clock, then ResetGame.
GameStartUp ==
    /\ \E seed \in 0 .. MaxSeed : rng' = seed
    /\ ResetGame
    /\ UNCHANGED <<aiEnabled, twin, sprite, loaded>>

\* StopGame: ResetGame.
StopGame == ResetGame /\ UNCHANGED <<aiEnabled, rng, twin, sprite, loaded>>

\* The static state of a run before any entry point is called.
StaticState ==
    [board |-> EmptyBoard, currentPlayer |-> 1, gameOver |-> FALSE,
     winner |-> 0, rng |-> DefaultSeed]

\* Application.cpp constructs no Sprite: the fields of one with no texture.
NoSprite == [size |-> <<0, 0>>, texture |-> 0, highlighted |-> FALSE]

\* The state after static initialisation.
Init ==
    /\ board = EmptyBoard
    /\ currentPlayer = 1
    /\ gameOver = FALSE
    /\ winner = 0
    /\ aiEnabled = TRUE
    /\ rng = DefaultSeed
    /\ twin = StaticState
    /\ sprite = NoSprite
    /\ loaded = <<>>

Next == Click \/ ResetPressed \/ ToggleAI \/ GameStartUp \/ StopGame

Spec == Init /\ [][Next]_vars

\* A session in which the checkbox is never touched: the AI plays O throughout.
NextAI == Click \/ ResetPressed

SpecAI == Init /\ [][NextAI]_vars

----------------------------------------------------------------------------
(* AIMove_Negamax as a function of the board: any board on which O may be  *)
(* asked to move (no triplet, a cell free, X one ahead or level), with the *)
(* state as the click handler leaves it at the call.                       *)

Count(b, p) == Cardinality({i \in Cells : b[i] = p})

HasTriplet(b, p) ==
    \E k \in 1 .. Len(WINS) : \A j \in 1 .. 3 : b[WINS[k][j]] = p

FnBoards ==
    {b \in [Cells -> 0 .. 2] :
        /\ Count(b, 1) - Count(b, 2) \in {0, 1}
        /\ ~HasTriplet(b, 1) /\ ~HasTriplet(b, 2)
        /\ \E i \in Cells : b[i] = 0}

InitFn ==
    /\ board \in FnBoards
    /\ currentPlayer = 2
    /\ gameOver = FALSE
    /\ winner = 0
    /\ aiEnabled = TRUE
    /\ rng = DefaultSeed
    /\ twin = StaticState
    /\ sprite = NoSprite
    /\ loaded = <<>>

\* The call of AIMove_Negamax at the end of the click handler.
AIMoveCall ==
    /\ currentPlayer = 2
    /\ \E r \in {AIMove_Negamax(State)} :
          /\ board' = r.board
          /\ currentPlayer' = r.currentPlayer
          /\ gameOver' = r.gameOver
          /\ winner' = r.winner
    /\ UNCHANGED <<aiEnabled, rng, twin, sprite, loaded>>

NextFn == AIMoveCall

SpecFn == InitFn /\ [][NextFn]_vars

----------------------------------------------------------------------------
(* Negamax as a function of the board: any board the search can stand on,  *)
(* that is any board of alternating moves begun by X and stopped by the    *)
(* first triplet, with the rest of the state as it is during the AI's      *)
(* search (O's turn recorded, no outcome recorded yet).                    *)

SearchBoards ==
    {b \in [Cells -> 0 .. 2] :
        /\ Count(b, 1) - Count(b, 2) \in {0, 1}
        /\ HasTriplet(b, 1) => (Count(b, 1) = Count(b, 2) + 1 /\ ~HasTriplet(b, 2))
        /\ HasTriplet(b, 2) => (Count(b, 1) = Count(b, 2) /\ ~HasTriplet(b, 1))}

InitNegamax ==
    /\ board \in SearchBoards
    /\ currentPlayer = 2
    /\ gameOver = FALSE
    /\ winner = 0
    /\ aiEnabled = TRUE
    /\ rng = DefaultSeed
    /\ twin = StaticState
    /\ sprite = NoSprite
    /\ loaded = <<>>

\* A call of Negamax for the side to move: of the state it touches only the
\* board, which it leaves as its place/undo pairs leave it.
NegamaxCall ==
    /\ board' = Negamax(board, IF Count(board, 1) = Count(board, 2) THEN 1 ELSE -1).board
    /\ UNCHANGED <<currentPlayer, gameOver, winner, aiEnabled, rng, twin, sprite, loaded>>

NextNegamax == NegamaxCall

SpecNegamax == InitNegamax /\ [][NextNegamax]_vars

----------------------------------------------------------------------------
(* Two runs of the program side by side: each has gone through             *)
(* GameStartUp, seeded from its own clock reading, and both are fed the    *)
(* same clicks and Reset presses under the same checkbox setting.          *)

\* Mutant of GameStartUp: the seed decides who starts.
GameStartUpRandomStarter(seed) ==
    [board |-> EmptyBoard, currentPlayer |-> 1 + (seed % 2), gameOver |-> FALSE,
     winner |-> 0, rng |-> seed]

\* GameStartUp: the state it leaves when the clock reads seed.
GameStartUpState(seed) ==
    [board |-> EmptyBoard, currentPlayer |-> 1, gameOver |-> FALSE,
     winner |-> 0, rng |-> seed]

\* DrawBoardUI: whether the second run draws the button of cell idx disabled.
TwinDisabled(idx) ==
    IF aiEnabled THEN twin.gameOver \/ twin.board[idx] # 0 \/ twin.currentPlayer # 1
    ELSE twin.gameOver \/ twin.board[idx] # 0

\* The runs are named so that the first has the earlier clock reading.
InitTwin ==
    /\ aiEnabled \in BOOLEAN
    /\ \E seed1 \in 0 .. MaxSeed : \E seed2 \in seed1 .. MaxSeed :
          /\ \E r \in {GameStartUpState(seed1)} :
                /\ board = r.board
                /\ currentPlayer = r.currentPlayer
                /\ gameOver = r.gameOver
                /\ winner = r.winner
                /\ rng = r.rng
          /\ twin = GameStartUpState(seed2)
    /\ sprite = NoSprite
    /\ loaded = <<>>

\* The same click in both runs: the handler runs in the first, and in the
\* second if the button is enabled there too.
TwinClick(idx) ==
    /\ ~Disabled(idx)
    /\ \E r \in {ButtonClicked(State, aiEnabled, idx)} :
          /\ board' = r.board
          /\ currentPlayer' = r.currentPlayer
          /\ gameOver' = r.gameOver
          /\ winner' = r.winner
    /\ IF TwinDisabled(idx) THEN twin' = twin
       ELSE \E r \in {ButtonClicked(twin, aiEnabled, idx)} :
               twin' = [board |-> r.board, currentPlayer |-> r.currentPlayer,
                        gameOver |-> r.gameOver, winner |-> r.winner,
                        rng |-> twin.rng]
    /\ UNCHANGED <<aiEnabled, rng, sprite, loaded>>

\* The Reset button pressed in both runs.
TwinReset ==
    /\ ResetGame
    /\ twin' = [board |-> EmptyBoard, currentPlayer |-> 1, gameOver |-> FALSE,
                winner |-> 0, rng |-> twin.rng]
    /\ UNCHANGED <<aiEnabled, rng, sprite, loaded>>

NextTwin == (\E idx \in Cells : TwinClick(idx)) \/ TwinReset

SpecTwin == InitTwin /\ [][NextTwin]_vars

----------------------------------------------------------------------------
(* Sprite (src/classes/Sprite.cpp).  The image decoder and the graphics    *)
(* API are outside the program: a call of LoadTextureFromFile draws what   *)
(* they return.                                                            *)

\* Decoded images are 1..MaxDim wide and high, or as wide or high as the
\* largest sizes a float still holds exactly.
MaxDim == 3

\* Texture identifiers are 0 (none) .. MaxTex.
MaxTex == 2

ImageDims == (1 .. MaxDim) \cup {2^24 - 1, 2^24}

\* (float)n for an int n >= 0: the nearest value with a 24-bit significand,
\* ties to even.
ToFloat(n) ==
    LET k == CHOOSE j \in 0 .. 7 : n < 2^(24 + j) /\ (j = 0 \/ n >= 2^(23 + j))
        step == 2^k
        q == n \div step
        r == n % step
        up == (2 * r) > step \/ ((2 * r) = step /\ (q % 2) = 1)
    IN IF k = 0 THEN n ELSE (IF up THEN q + 1 ELSE q) * step

\* Mutant of LoadTextureFromFile: `_size = ImVec2(0, 0);` forgotten when no
\* texture was created.
LoadTextureFromFileKeepsSize(s, image, created) ==
    IF image = <<>> THEN [sprite |-> [s EXCEPT !.size = <<0, 0>>], ret |-> FALSE]
    ELSE LET t == [s EXCEPT !.texture = created]
         IN IF created = 0 THEN [sprite |-> t, ret |-> FALSE]
            ELSE [sprite |-> [t EXCEPT !.size = <<ToFloat(image[1]), ToFloat(image[2])>>],
                  ret |-> TRUE]

\* Sprite::LoadTextureFromFile on the sprite s: image is what stbi_load
\* gives (<<>> for NULL, else <<image_width, image_height>>), created what
\* _loadTextureFromMemory returns.  The result is the sprite and the value
\* returned.
LoadTextureFromFile(s, image, created) ==
    IF image = <<>> THEN [sprite |-> [s EXCEPT !.size = <<0, 0>>], ret |-> FALSE]
    ELSE LET t == [s EXCEPT !.texture = created]
         IN IF created = 0 THEN [sprite |-> [t EXCEPT !.size = <<0, 0>>], ret |-> FALSE]
            ELSE [sprite |-> [t EXCEPT !.size = <<ToFloat(image[1]), ToFloat(image[2])>>],
                  ret |-> TRUE]

\* Sprite.h is not part of the sources: a sprite starts with any fields.
InitSprite ==
    /\ sprite \in [size : {<<0, 0>>} \cup (ImageDims \X ImageDims),
                   texture : 0 .. MaxTex,
                   highlighted : BOOLEAN]
    /\ loaded = <<>>
    /\ board = EmptyBoard
    /\ currentPlayer = 1
    /\ gameOver = FALSE
    /\ winner = 0
    /\ aiEnabled = TRUE
    /\ rng = DefaultSeed
    /\ twin = StaticState

\* A call of LoadTextureFromFile; loaded records what the decoder gave,
\* what texture creation returned (-1: not called) and the value returned.
LoadTexture ==
    /\ \E image \in {<<>>} \cup (ImageDims \X ImageDims) : \E created \in 0 .. MaxTex :
          \E r \in {LoadTextureFromFile(sprite, image, created)} :
             /\ sprite' = r.sprite
             /\ loaded' = << [image |-> image,
                              created |-> IF image = <<>> THEN -1 ELSE created,
                              ret |-> r.ret] >>
    /\ UNCHANGED <<board, currentPlayer, gameOver, winner, aiEnabled, rng, twin>>

\* Sprite::setHighlighted
setHighlighted ==
    /\ \E highlighted \in BOOLEAN :
          sprite' = IF highlighted # sprite.highlighted
                    THEN [sprite EXCEPT !.highlighted = highlighted]
                    ELSE sprite
    /\ UNCHANGED <<board, currentPlayer, gameOver, winner, aiEnabled, rng, twin, loaded>>

NextSprite == LoadTexture \/ setHighlighted

SpecSprite == InitSprite /\ [][NextSprite]_vars

----------------------------------------------------------------------------
(* Reference notions the properties are stated with, defined from the      *)
(* rules of the game and independent of the scan and of the search above.  *)

\* Triplet k of the 8 lines is complete: its three cells hold one mark.
Complete(b, k) ==
    b[WINS[k][1]] # 0 /\ b[WINS[k][1]] = b[WINS[k][2]] /\ b[WINS[k][2]] = b[WINS[k][3]]

Owners(b) == {p \in {1, 2} : HasTriplet(b, p)}

Empties(b) == {i \in Cells : b[i] = 0}

Terminal(b) == Owners(b) # {} \/ Empties(b) = {}

SetMax(S) == CHOOSE m \in S : \A x \in S : x <= m

RECURSIVE FullValue(_, _)
\* The game value of b for the side to move (+1 X, -1 O): exhaustive
\* minimax over every empty cell, no move order, no early exit.
FullValue(b, side) ==
    IF HasTriplet(b, 1) THEN side
    ELSE IF HasTriplet(b, 2) THEN -side
    ELSE IF Empties(b) = {} THEN 0
    ELSE SetMax({ -FullValue([b EXCEPT ![i] = IF side = 1 THEN 1 ELSE 2], -side) :
                    i \in Empties(b) })

\* The value for O of placing O at cell i of b.
ReplyValue(b, i) == -FullValue([b EXCEPT ![i] = 2], 1)

\* The order the claims name: center, corners, edges.
PreferenceOrder == <<4, 0, 2, 6, 8, 1, 3, 5, 7>>

\* The first cell, in PreferenceOrder, among the empty cells of b whose
\* ReplyValue is the maximum over the empty cells.
FirstBestReply(b) ==
    LET top == SetMax({ReplyValue(b, i) : i \in Empties(b)})
        k == CHOOSE n \in 1 .. 9 :
                /\ b[PreferenceOrder[n]] = 0
                /\ ReplyValue(b, PreferenceOrder[n]) = top
                /\ \A m \in 1 .. n - 1 :
                      b[PreferenceOrder[m]] # 0 \/ ReplyValue(b, PreferenceOrder[m]) # top
    IN PreferenceOrder[k]

\* The side whose turn it is on a board of alternating moves begun by X.
SideToMove(b) == IF Count(b, 1) = Count(b, 2) THEN 1 ELSE -1

----------------------------------------------------------------------------
(* Properties *)

\* C1: with the AI playing O throughout (SpecAI: the checkbox is never
\* touched), X is never recorded as the winner, and a finished game is a
\* win for O or a draw.
C1_AINeverLoses == winner # 1 /\ (gameOver => winner \in {0, 2})

\* A game against the AI that the AI has won.
C1_Witness == aiEnabled /\ gameOver /\ winner = 2

\* C2: called with O to move on a board with no triplet and a free cell,
\* AIMove_Negamax writes O into the first cell, in the order
\* 4,0,2,6,8,1,3,5,7, among the empty cells of maximal exhaustive value, and
\* changes nothing else of the board.
C2_AIPicksFirstBest ==
    [][(currentPlayer = 2 /\ ~gameOver /\ ~Terminal(board))
         => board' = [board EXCEPT ![FirstBestReply(board)] = 2]]_vars

\* The AI has moved (SpecFn starts with O to move, so X to move means the
\* reply is on the board) and its cell i tied for the best value with an
\* empty cell of smaller index: the order 4,0,2,... decided, not the index.
C2_Witness ==
    /\ currentPlayer = 1 /\ ~gameOver
    /\ \E i \in Cells :
          /\ board[i] = 2
          /\ LET pre == [board EXCEPT ![i] = 0]
             IN /\ ~Terminal(pre)
                /\ FirstBestReply(pre) = i
                /\ \E j \in Empties(pre) :
                      j < i /\ ReplyValue(pre, j) = ReplyValue(pre, i)

\* C3: on [1,1,0,0,2,0,0,0,2] AIMove_Negamax places O at index 2 and
\* writes no other cell.
C3_Board == [i \in Cells |-> IF i \in {0, 1} THEN 1 ELSE IF i \in {4, 8} THEN 2 ELSE 0]

C3_BlocksAtTwo ==
    [][(board = C3_Board /\ currentPlayer = 2 /\ ~gameOver)
         => board' = [C3_Board EXCEPT ![2] = 2]]_vars

\* The board after the reply, the game going on with X to move.
C3_Witness ==
    board = [C3_Board EXCEPT ![2] = 2] /\ currentPlayer = 1 /\ ~gameOver

\* C4: no reachable board holds a complete triplet of X and one of O; every
\* complete triplet has the owner CheckWinnerRaw returns, so the answer is
\* the same in whatever order the 8 triplets are scanned.
C4_OneWinnerAtMost ==
    /\ ~(HasTriplet(board, 1) /\ HasTriplet(board, 2))
    /\ \A k \in 1 .. 8 :
          Complete(board, k) => CheckWinnerRaw(board) = board[WINS[k][1]]

\* Two different triplets are complete at once (of one player).
C4_Witness ==
    \E k1, k2 \in 1 .. 8 : k1 # k2 /\ Complete(board, k1) /\ Complete(board, k2)

\* C5: between UI events the recorded outcome is the one the board gives:
\* winner is the owner of a complete triplet (0 if none), gameOver holds iff
\* a triplet is complete or no cell is empty, and a draw is recorded iff the
\* board is full with no triplet.
C5_OutcomeMatchesBoard ==
    /\ Owners(board) = {} => winner = 0
    /\ \A p \in Owners(board) : winner = p
    /\ gameOver <=> (Owners(board) # {} \/ Empties(board) = {})
    /\ (gameOver /\ winner = 0) <=> (Empties(board) = {} /\ Owners(board) = {})

\* A full board that holds a triplet, recorded as a win.
C5_Witness == Empties(board) = {} /\ Owners(board) # {} /\ gameOver /\ winner # 0

\* C6 as stated: on any board, Negamax(+1) = -Negamax(-1).
C6_Antisymmetric == Negamax(board, 1).val = -Negamax(board, -1).val

\* C6, amended: on a terminal board (a complete triplet, or no empty cell)
\* Negamax(+1) = -Negamax(-1).
C6_AntisymmetricTerminal ==
    Terminal(board) => Negamax(board, 1).val = -Negamax(board, -1).val

\* A finished game with a winner: the two calls return +1 and -1.
C6_Witness == gameOver /\ winner = 1 /\ Negamax(board, 1).val = 1

\* C7: on every board of alternating legal moves, for the side to move,
\* Negamax returns the exhaustive minimax value (every empty cell explored,
\* no order, no early exit).
C7_PruningKeepsValue ==
    Count(board, 1) - Count(board, 2) \in {0, 1}
        => Negamax(board, SideToMove(board)).val = FullValue(board, SideToMove(board))

\* A board on which the early exit is taken with cells left unexplored: the
\* side to move wins by force and the first cell in ORDER already wins.
C7_Witness ==
    /\ Count(board, 1) - Count(board, 2) \in {0, 1}
    /\ ~Terminal(board)
    /\ Cardinality(Empties(board)) >= 3
    /\ \E k \in 1 .. 9 :
          /\ board[ORDER[k]] = 0
          /\ \A m \in 1 .. k - 1 : board[ORDER[m]] # 0
          /\ -FullValue([board EXCEPT ![ORDER[k]] = IF SideToMove(board) = 1 THEN 1 ELSE 2],
                        -SideToMove(board)) = 1

\* C8: a step of ResetGame (the Reset button, StopGame, GameStartUp) leaves
\* all 9 cells empty, currentPlayer 1, gameOver false, winner 0, and
\* aiEnabled as it was.
C8_ResetClears ==
    [][(ResetPressed \/ StopGame \/ GameStartUp)
         => /\ \A i \in Cells : board'[i] = 0
            /\ currentPlayer' = 1
            /\ gameOver' = FALSE
            /\ winner' = 0
            /\ aiEnabled' = aiEnabled]_vars

\* A state in which ResetGame has every field to clear: a finished game won
\* by O in two-player mode, O's turn recorded.
C8_Witness ==
    /\ gameOver /\ winner = 2 /\ currentPlayer = 2 /\ ~aiEnabled
    /\ board # EmptyBoard

\* C9: once gameOver holds, a step either leaves board, winner, gameOver
\* and currentPlayer as they are or is a reset (empty board, X to move, no
\* outcome); nothing else leads back to a game in progress.
C9_TerminalAbsorbing ==
    [][gameOver =>
          \/ UNCHANGED <<board, winner, gameOver, currentPlayer>>
          \/ /\ board' = EmptyBoard
             /\ currentPlayer' = 1
             /\ gameOver' = FALSE
             /\ winner' = 0]_vars

\* A finished game with empty cells left and the AI on: cells a click could
\* still fill were they not disabled.
C9_Witness == gameOver /\ aiEnabled /\ currentPlayer = 1 /\ Empties(board) # {}

\* C10: X has as many cells as O or one more, and while the game is on it
\* is X's turn iff the counts are equal and O's turn iff X has one more.
C10_MovesAlternate ==
    LET diff == Count(board, 1) - Count(board, 2)
    IN /\ diff \in {0, 1}
       /\ ~gameOver => /\ currentPlayer = 1 <=> diff = 0
                       /\ currentPlayer = 2 <=> diff = 1

\* The checkbox was switched on in mid-game with O to move.
C10_Witness ==
    ~gameOver /\ aiEnabled /\ currentPlayer = 2 /\ Count(board, 1) = Count(board, 2) + 1

\* The cells in which two boards differ.
Changed(b1, b2) == {i \in Cells : b1[i] # b2[i]}

\* C11: called with gameOver false and a cell free, the search loop of
\* AIMove_Negamax itself ends with a move (bestMove # -1, the fallback is
\* not used), and the call changes exactly one cell, from empty to O.
C11_SearchFindsMove ==
    [][(currentPlayer = 2 /\ ~gameOver /\ Empties(board) # {})
         => /\ AIMoveLoop(board, 1, IntMin, -1).bestMove \in Empties(board)
            /\ Cardinality(Changed(board, board')) = 1
            /\ \A i \in Changed(board, board') : board[i] = 0 /\ board'[i] = 2]_vars

\* The AI has moved on a board where the fallback would have chosen another
\* cell: cell 0 is still empty and the game goes on.
C11_Witness ==
    currentPlayer = 1 /\ ~gameOver /\ board[0] = 0 /\ Count(board, 2) >= 1

\* C13: a step that is not a reset to the empty board leaves every
\* non-empty cell as it is and writes only empty cells, with X or O; when it
\* writes, the game was not over and one written cell is an enabled cell
\* that received the mark of the player to move, the only other possible
\* one being the AI's O in reply.  After gameOver nothing is written.
C13_MovesFillEmptyCells ==
    [][\/ board' = EmptyBoard
       \/ /\ \A i \in Cells : board[i] # 0 => board'[i] = board[i]
          /\ \A i \in Changed(board, board') : board[i] = 0 /\ board'[i] \in {1, 2}
          /\ Changed(board, board') # {} =>
                /\ ~gameOver
                /\ \E i \in Changed(board, board') :
                      /\ ~Disabled(i)
                      /\ board'[i] = currentPlayer
                      /\ \A j \in Changed(board, board') \ {i} : aiEnabled /\ board'[j] = 2
                /\ Cardinality(Changed(board, board')) <= 2]_vars

\* A game against the AI in progress after two clicks and two replies.
C13_Witness ==
    aiEnabled /\ ~gameOver /\ currentPlayer = 1 /\ Count(board, 1) = 2 /\ Count(board, 2) = 2

\* C14: on the board AIMove_Negamax is called with, a call of Negamax for
\* either side returns with the board as it was at entry (a write into an
\* occupied cell would leave it empty after the undo, a missing undo would
\* leave it filled), the search loop of AIMove_Negamax does too, and after
\* the call the board differs from the entry board in exactly the chosen
\* cell.
C14_PlaceUndo ==
    [][(currentPlayer = 2 /\ ~gameOver)
         => /\ Negamax(board, 1).board = board
            /\ Negamax(board, -1).board = board
            /\ LET found == AIMoveLoop(board, 1, IntMin, -1)
               IN /\ found.board = board
                  /\ Changed(board, board') = {found.bestMove}]_vars

\* The AI has moved on a board with at least five free cells, so the search
\* placed and undid marks three levels deep and more.
C14_Witness ==
    currentPlayer = 1 /\ ~gameOver /\ Cardinality(Empties(board)) >= 4
        /\ Count(board, 2) = Count(board, 1)

\* C15: on every board the search can stand on, for the side to move, no
\* chain of nested Negamax calls is longer than the number of empty cells at
\* entry (so never longer than 9: the search is not abandoned at MaxDepth),
\* and the call ends, with the value the untraced search gives.  Every call
\* the program makes is such a call: AIMove_Negamax runs with X one ahead
\* and the sides alternate down the chain.
C15_DepthBounded ==
    LET t == NegamaxTraced(board, SideToMove(board), 0)
    IN /\ t.depth <= MaxDepth
       /\ t.depth <= Cardinality(Empties(board))
       /\ t.val = Negamax(board, SideToMove(board)).val

\* A board on which the bound is met: 5 cells free and a chain 5 calls deep.
C15_Witness ==
    /\ Cardinality(Empties(board)) = 5
    /\ NegamaxTraced(board, SideToMove(board), 0).depth = 5

\* C16: on every board the search can stand on (won, full or open),
\* Negamax, for either side, returns -1, 0 or +1, never the sentinel
\* IntMin, and no negation in it is applied to IntMin.  The loop of
\* AIMove_Negamax makes the calls the loop of Negamax(-1) makes on the same
\* board (same order, same mark, same exit on +1), so its negations are
\* among those.
C16_ValueRange ==
    \A side \in {1, -1} :
        LET t == NegamaxTraced(board, side, 0)
        IN t.val \in {-1, 0, 1} /\ ~t.negatedMin

\* A full board with no triplet: the loop of Negamax would run over no cell
\* and leave the sentinel, were it reached.
C16_Witness ==
    /\ Empties(board) = {} /\ Owners(board) = {}
    /\ NegamaxTraced(board, 1, 0).val = 0 /\ NegamaxTraced(board, -1, 0).val = 0

\* C17: while the game is not over some empty cell is enabled for a click,
\* and with the AI enabled a game that is not over is on X's turn.
C17_CanProgress ==
    ~gameOver => /\ \E i \in Cells : board[i] = 0 /\ ~Disabled(i)
                 /\ aiEnabled => currentPlayer = 1

\* The empty cells of b in which an O completes a triplet of O.
ImmediateWins(b) == {i \in Empties(b) : HasTriplet([b EXCEPT ![i] = 2], 2)}

\* C18 as stated: called with O to move on a board where some empty cell
\* completes a triplet of O, AIMove_Negamax ends the game with O the winner.
C18_TakesImmediateWin ==
    [][(currentPlayer = 2 /\ ~gameOver /\ SideToMove(board) = -1
            /\ ImmediateWins(board) # {})
         => (gameOver' /\ winner' = 2)]_vars

\* C18, amended: on such a board the reply of AIMove_Negamax is a winning
\* one, the first in ORDER: either it completes the triplet and ends the
\* game with O the winner, or the game goes on with X to move on a board
\* that is lost for X whatever X plays, a cell earlier in ORDER than every
\* immediate win having been chosen.
C18_TakesWinningReply ==
    [][(currentPlayer = 2 /\ ~gameOver /\ SideToMove(board) = -1
            /\ ImmediateWins(board) # {})
         => \/ gameOver' /\ winner' = 2 /\ Changed(board, board') \subseteq ImmediateWins(board)
            \/ /\ ~gameOver' /\ winner' = 0 /\ currentPlayer' = 1
               /\ FullValue(board', 1) = -1
               /\ Changed(board, board') = {FirstBestReply(board)}
               /\ Changed(board, board') \cap ImmediateWins(board) = {}]_vars

\* The AI has completed a triplet of O: the game is over, O the winner.
C18_Witness ==
    gameOver /\ winner = 2 /\ HasTriplet(board, 2) /\ Count(board, 1) = Count(board, 2)

\* The AI has passed over an immediate win for a forced one: the game goes
\* on, O could have completed a triplet with its last mark elsewhere.
C18_WitnessDelayed ==
    /\ ~gameOver /\ currentPlayer = 1 /\ Count(board, 1) = Count(board, 2)
    /\ \E i \in Cells : board[i] = 2 /\ ImmediateWins([board EXCEPT ![i] = 0]) # {}
    /\ FullValue(board, 1) = -1

C19_LoadReportsFailure ==
    Len(loaded) = 1 =>
        LET c == loaded[1]
        IN /\ (c.image = <<>> \/ c.created = 0)
                 => (c.ret = FALSE /\ sprite.size = <<0, 0>>)
           /\ c.ret = TRUE
                 => /\ c.image # <<>> /\ c.created > 0
                    /\ sprite.size = c.image
                    /\ sprite.texture = c.created

\* The image was decoded and texture creation returned 0.
C19_Witness ==
    /\ Len(loaded) = 1 /\ loaded[1].image # <<>> /\ loaded[1].created = 0
    /\ loaded[1].ret = FALSE /\ sprite.size = <<0, 0>>

====
